---- MODULE Spec2Model ----
(***************************************************************************)
(* Model of src/script.js: the product-table viewer.                       *)
(*                                                                         *)
(* The store is the module-level state of the script (products,            *)
(* filteredProducts, currentPage, pageSize, sortOrder, currentSortField).  *)
(* The part of the DOM the script writes and reads back is state too: the  *)
(* value of the #search input, the three views (loading, mainContent,      *)
(* error), the table body, the empty-state banner, the page/range info,    *)
(* the four navigation buttons, the page-number strip and the statistics.  *)
(* One action stands for one event turn: the handler runs to completion,   *)
(* with every call it makes (renderTable included).                        *)
(*                                                                         *)
(* Writes no handler reads back and no property looks at are left out: the *)
(* sort icons of updateSortButtons, the display of #clearSearch, the value *)
(* of the #pageSize selector, the error message text and scrollToTop.      *)
(*                                                                         *)
(* Strings are sequences of one-character strings, so that toLowerCase,    *)
(* trim and includes are computed and not assumed.                         *)
(***************************************************************************)
EXTENDS Integers, Sequences, FiniteSets, TLC

\* ------------------------------------------------------------------ bounds
\* Largest collection the fetch may return.
MaxProducts == 5
\* Largest page number handed to goToPage (0 and MaxGoTo are out of range
\* for most result sets).
MaxGoTo == 3
\* The smallest option of the #pageSize selector that the model offers.
SmallPageSize == 2
\* Most pages of the result sets the page-number strip is checked on.
MaxStripPages == 8

\* pageSize at start-up and after resetFilters.
DefaultPageSize == 10

\* ------------------------------------------------------------- characters
LP == "("
SP == " "

\* String.prototype.toLowerCase on one character of the model's alphabet.
LowerChar(c) ==
  CASE c = "A" -> "a"
    [] c = "B" -> "b"
    [] OTHER -> c

ToLowerCase(s) == [i \in 1..Len(s) |-> LowerChar(s[i])]

\* String.prototype.trim: drop leading and trailing white space.
RECURSIVE TrimLeft(_)
TrimLeft(s) ==
  IF s # <<>> /\ Head(s) = SP THEN TrimLeft(Tail(s)) ELSE s

RECURSIVE TrimRight(_)
TrimRight(s) ==
  IF s # <<>> /\ s[Len(s)] = SP THEN TrimRight(SubSeq(s, 1, Len(s) - 1)) ELSE s

Trim(s) == TrimRight(TrimLeft(s))

\* String.prototype.includes: sub occurs in s as a contiguous substring.
Includes(s, sub) ==
  \E i \in 0..(Len(s) - Len(sub)) : SubSeq(s, i + 1, i + Len(sub)) = sub

\* ------------------------------------------------------------ the catalogue
\* What the remote API can answer: the first n products of a fixed
\* catalogue, for n in FetchSizes.  Titles mix case, repeat up to case, and
\* hold a blank and a "(" ; prices repeat.
TitlePool ==
  << <<"A", "b">>,
     <<"b", "a">>,
     <<"a", LP>>,
     <<"B">>,
     <<"a", "b">>,
     <<"b", SP, "a">> >>

TitleOf(i) == TitlePool[((i - 1) % Len(TitlePool)) + 1]

PriceOf(i) == (i * 7) % 4

Product(i) == [id |-> i, title |-> TitleOf(i), price |-> PriceOf(i)]

Catalogue(n) == [i \in 1..n |-> Product(i)]

FetchSizes == {0, 1, MaxProducts}

\* What the user may type into #search.
SearchInputs ==
  { <<>>,
    <<"a">>,
    <<SP, "A", "b", SP>>,
    <<LP>>,
    <<"b", "b">> }

PageSizeOptions == {SmallPageSize, DefaultPageSize}

Fields == {"price", "title"}

NULL == "null"

\* ------------------------------------------------------------ array helpers
\* Array.prototype.slice(start, end), negative indices counted from the end.
SliceIndex(k, len) ==
  IF k < 0 THEN (IF len + k < 0 THEN 0 ELSE len + k)
  ELSE (IF k > len THEN len ELSE k)

Slice(arr, start, end) ==
  SubSeq(arr, SliceIndex(start, Len(arr)) + 1, SliceIndex(end, Len(arr)))

\* products.filter(p => p.title.toLowerCase().includes(keyword))
FilterByTitle(arr, keyword) ==
  SelectSeq(arr, LAMBDA p : Includes(ToLowerCase(p.title), keyword))

\* The keyword handleSearch and sortBy derive from the #search value.
Keyword(value) == Trim(ToLowerCase(value))

\* String.prototype.localeCompare on the model's alphabet, as the default
\* collation orders it: white space and punctuation before letters, letters
\* by base letter first, and lower case before upper case only to break
\* an otherwise complete tie.
PrimaryRank(c) ==
  CASE c = SP -> 0
    [] c = LP -> 1
    [] LowerChar(c) = "a" -> 2
    [] OTHER -> 3

CaseRank(c) == IF c = LowerChar(c) THEN 0 ELSE 1

RECURSIVE LexCompare(_, _)
LexCompare(s, t) ==
  IF s = <<>> /\ t = <<>> THEN 0
  ELSE IF s = <<>> THEN -1
  ELSE IF t = <<>> THEN 1
  ELSE IF Head(s) < Head(t) THEN -1
  ELSE IF Head(s) > Head(t) THEN 1
  ELSE LexCompare(Tail(s), Tail(t))

LocaleCompare(a, b) ==
  LET p == LexCompare([i \in 1..Len(a) |-> PrimaryRank(a[i])],
                      [i \in 1..Len(b) |-> PrimaryRank(b[i])])
  IN  IF p # 0 THEN p
      ELSE LexCompare([i \in 1..Len(a) |-> CaseRank(a[i])],
                      [i \in 1..Len(b) |-> CaseRank(b[i])])

\* The comparator that ignores the direction.
CompareAscending(a, b, field, dir) ==
  IF field = "price" THEN a.price - b.price
  ELSE LocaleCompare(a.title, b.title)

\* The comparator sortBy hands to Array.prototype.sort.
Compare(a, b, field, dir) ==
  IF field = "price"
  THEN (IF dir = "asc" THEN a.price - b.price ELSE b.price - a.price)
  ELSE (IF dir = "asc" THEN LocaleCompare(a.title, b.title)
                       ELSE LocaleCompare(b.title, a.title))

\* Array.prototype.sort is stable: x goes after every element that does not
\* compare greater than it.
RECURSIVE InsertSorted(_, _, _, _)
InsertSorted(sorted, x, field, dir) ==
  IF sorted = <<>> THEN <<x>>
  ELSE IF Compare(Head(sorted), x, field, dir) <= 0
       THEN <<Head(sorted)>> \o InsertSorted(Tail(sorted), x, field, dir)
       ELSE <<x>> \o sorted

RECURSIVE SortFrom(_, _, _, _)
SortFrom(sorted, rest, field, dir) ==
  IF rest = <<>> THEN sorted
  ELSE SortFrom(InsertSorted(sorted, Head(rest), field, dir), Tail(rest), field, dir)

Sort(arr, field, dir) == SortFrom(<<>>, arr, field, dir)

\* An assignment of the array itself in place of a copy.
SpreadAliased(arr) == [arr |-> arr, fresh |-> FALSE]

\* [...products]: a new array with the same elements; fresh says that it is
\* a different object from the one it was copied from.
Spread(arr) == [arr |-> arr, fresh |-> TRUE]

\* Math.ceil(filteredProducts.length / pageSize)
TotalPages(fp, ps) == (Len(fp) + ps - 1) \div ps

\* ------------------------------------------------------------------- state
VARIABLES
  products,          \* let products
  filteredProducts,  \* let filteredProducts
  shared,            \* filteredProducts and products are one array object
  currentPage,       \* let currentPage
  pageSize,          \* let pageSize
  sortOrder,         \* let sortOrder = {price, title}
  currentSortField,  \* let currentSortField
  searchValue,       \* document.getElementById("search").value
  views,             \* style.display of #loading, #mainContent, #error
  dom,               \* what renderTable and its helpers last wrote
  fetchState,        \* the single fetch of getAll: pending or settled
  lastOp,            \* history: the event handled last
  toggleRun          \* history: consecutive sortBy calls on one field

store == <<products, filteredProducts, shared, currentPage, pageSize,
           sortOrder, currentSortField>>

vars == <<products, filteredProducts, shared, currentPage, pageSize,
          sortOrder, currentSortField, searchValue, views, dom, fetchState,
          lastOp, toggleRun>>

\* ------------------------------------------------------------- projections
Min(a, b) == IF a < b THEN a ELSE b
Max(a, b) == IF a > b THEN a ELSE b

\* The marker addEllipsis appends to the strip.
Ellipsis == 0

\* renderTable: const pageData = filteredProducts.slice(start, end)
PageData(fp, cp, ps) == Slice(fp, (cp - 1) * ps, (cp - 1) * ps + ps)

\* highlightSearchTerm builds new RegExp(`(${searchTerm})`, 'gi') from the
\* raw trimmed value: with an unbalanced "(" in it the constructor throws.
HighlightThrows(value) ==
  \E i \in 1..Len(Trim(value)) : Trim(value)[i] = LP

\* renderTable throws as soon as it renders a first row.
RenderThrows(fp, cp, ps, value) ==
  /\ Len(fp) # 0
  /\ PageData(fp, cp, ps) # <<>>
  /\ HighlightThrows(value)

\* updatePaginationInfo
PaginationInfo(fp, cp, ps) ==
  [ page  |-> IF Len(fp) = 0 THEN 0 ELSE cp,
    total |-> TotalPages(fp, ps),
    start |-> IF Len(fp) = 0 THEN 0 ELSE (cp - 1) * ps + 1,
    end   |-> Min(cp * ps, Len(fp)),
    count |-> Len(fp) ]

\* updatePaginationButtons: the disabled flag of each button.
ButtonStates(fp, cp, ps) ==
  [ first |-> (cp = 1) \/ Len(fp) = 0,
    prev  |-> (cp = 1) \/ Len(fp) = 0,
    next  |-> (cp = TotalPages(fp, ps)) \/ Len(fp) = 0,
    last  |-> (cp = TotalPages(fp, ps)) \/ Len(fp) = 0 ]

\* renderPageNumbers: the strip it leaves in #pageNumbers.
StartPage(cp, tp) ==
  IF cp >= tp - 2 THEN Max(1, tp - 4) ELSE Max(1, cp - 2)

\* endPage without the adjustment for the first three pages.
EndPageUnadjusted(cp, tp) == Min(tp, cp + 2)

EndPage(cp, tp) ==
  IF cp <= 3 THEN Min(5, tp) ELSE Min(tp, cp + 2)

PageNumbers(cp, tp) ==
  IF tp <= 1 THEN <<>>
  ELSE LET sp == StartPage(cp, tp)
           ep == EndPage(cp, tp)
       IN  (IF sp > 1
            THEN <<1>> \o (IF sp > 2 THEN <<Ellipsis>> ELSE <<>>)
            ELSE <<>>)
           \o [i \in 1..(ep - sp + 1) |-> sp + i - 1]
           \o (IF ep < tp
               THEN (IF ep < tp - 1 THEN <<Ellipsis>> ELSE <<>>) \o <<tp>>
               ELSE <<>>)

\* updateStats
Stats(pr, fp, cp) ==
  [ total |-> Len(pr), displayed |-> Len(fp), page |-> cp ]

\* renderTable on DOM d; the row loop stops at the first row when
\* highlightSearchTerm throws, and nothing after the loop runs then.
RenderTable(d, pr, fp, cp, ps, value) ==
  IF Len(fp) = 0
  THEN [d EXCEPT !.tbody = <<>>,
                 !.emptyState = TRUE,
                 !.pageInfo = PaginationInfo(fp, cp, ps),
                 !.buttons = ButtonStates(fp, cp, ps)]
  ELSE IF RenderThrows(fp, cp, ps, value)
  THEN [d EXCEPT !.tbody = <<>>, !.emptyState = FALSE]
  ELSE [ tbody       |-> [i \in 1..Len(PageData(fp, cp, ps)) |->
                            PageData(fp, cp, ps)[i].id],
         emptyState  |-> FALSE,
         pageInfo    |-> PaginationInfo(fp, cp, ps),
         buttons     |-> ButtonStates(fp, cp, ps),
         pageNumbers |-> PageNumbers(cp, TotalPages(fp, ps)),
         stats       |-> Stats(pr, fp, cp) ]

\* The handler's closing renderTable(), on the state the handler leaves.
Rendered ==
  dom' = RenderTable(dom, products', filteredProducts', currentPage',
                     pageSize', searchValue')

\* The DOM before the script has written to it.
BlankDom ==
  [ tbody       |-> <<>>,
    emptyState  |-> FALSE,
    pageInfo    |-> [page |-> 0, total |-> 0, start |-> 0,
                     end |-> 0, count |-> 0],
    buttons     |-> [first |-> FALSE, prev |-> FALSE,
                     next |-> FALSE, last |-> FALSE],
    pageNumbers |-> <<>>,
    stats       |-> [total |-> 0, displayed |-> 0, page |-> 0] ]

\* -------------------------------------------------------------------- Init
\* The state once the DOMContentLoaded handler has returned: getAll has run
\* up to its await (showLoading, hideError, fetch issued) and the listeners
\* are registered.  The texts the markup starts with are not the script's;
\* they are taken to be blank.
Init ==
  /\ products = <<>>
  /\ filteredProducts = <<>>
  /\ shared = FALSE
  /\ currentPage = 1
  /\ pageSize = DefaultPageSize
  /\ sortOrder = [f \in Fields |-> NULL]
  /\ currentSortField = NULL
  /\ searchValue = <<>>
  /\ views = [loading |-> TRUE, mainContent |-> FALSE, error |-> FALSE]
  /\ dom = BlankDom
  /\ fetchState = "pending"
  /\ lastOp = [op |-> "init", arg |-> NULL, n |-> 0, from |-> 1, active |-> NULL]
  /\ toggleRun = [field |-> NULL, n |-> 0]

\* ---------------------------------------------------------------- handlers
\* getAll from its await on, the fetch having resolved with a success
\* status and the collection coll.  A throw of renderTable is inside the
\* try block: the catch clause then shows the error view.
getAllResolved(coll) ==
  /\ products' = coll
  /\ filteredProducts' = Spread(coll).arr
  /\ shared' = ~Spread(coll).fresh
  /\ UNCHANGED <<currentPage, pageSize, sortOrder, currentSortField, searchValue>>
  /\ LET d1 == [dom EXCEPT !.stats = Stats(products', filteredProducts', currentPage)]
     IN  dom' = RenderTable(d1, products', filteredProducts', currentPage,
                            pageSize, searchValue)
  /\ views' = IF RenderThrows(filteredProducts', currentPage, pageSize, searchValue)
              THEN [loading |-> FALSE, mainContent |-> FALSE, error |-> TRUE]
              ELSE [loading |-> FALSE, mainContent |-> TRUE, error |-> views.error]

\* getAll from its await on, the fetch having failed or answered with a
\* status that is not ok: the catch clause.
getAllRejected ==
  /\ views' = [loading |-> FALSE, mainContent |-> FALSE, error |-> TRUE]
  /\ UNCHANGED <<store, searchValue, dom>>

\* handleSearch narrowing the current result in place of products.
handleSearchOfFiltered(value) ==
  /\ searchValue' = value
  /\ filteredProducts' = FilterByTitle(filteredProducts, Keyword(value))
  /\ shared' = FALSE
  /\ currentPage' = 1
  /\ UNCHANGED <<products, pageSize, sortOrder, currentSortField, views>>
  /\ Rendered

handleSearch(value) ==
  /\ searchValue' = value
  /\ filteredProducts' = FilterByTitle(products, Keyword(value))
  /\ shared' = FALSE
  /\ currentPage' = 1
  /\ UNCHANGED <<products, pageSize, sortOrder, currentSortField, views>>
  /\ Rendered

\* clearSearch that drops the sort state as well.
clearSearchAndSort ==
  /\ searchValue' = <<>>
  /\ filteredProducts' = Spread(products).arr
  /\ shared' = ~Spread(products).fresh
  /\ currentPage' = 1
  /\ sortOrder' = [f \in Fields |-> NULL]
  /\ currentSortField' = NULL
  /\ UNCHANGED <<products, pageSize, views>>
  /\ Rendered

clearSearch ==
  /\ searchValue' = <<>>
  /\ filteredProducts' = Spread(products).arr
  /\ shared' = ~Spread(products).fresh
  /\ currentPage' = 1
  /\ UNCHANGED <<products, pageSize, sortOrder, currentSortField, views>>
  /\ Rendered

handlePageSizeChange(value) ==
  /\ pageSize' = value
  /\ currentPage' = 1
  /\ UNCHANGED <<products, filteredProducts, shared, sortOrder,
                 currentSortField, searchValue, views>>
  /\ Rendered

getTotalPages == TotalPages(filteredProducts, pageSize)

\* A navigation function that assigns page to currentPage and renders.
MoveTo(page) ==
  /\ currentPage' = page
  /\ UNCHANGED <<products, filteredProducts, shared, pageSize, sortOrder,
                 currentSortField, searchValue, views>>
  /\ Rendered

Untouched == UNCHANGED <<store, searchValue, views, dom>>

nextPage ==
  IF currentPage < getTotalPages THEN MoveTo(currentPage + 1) ELSE Untouched

prevPage ==
  IF currentPage > 1 THEN MoveTo(currentPage - 1) ELSE Untouched

goToPage(page) ==
  IF page >= 1 /\ page <= getTotalPages THEN MoveTo(page) ELSE Untouched

goToLastPage == MoveTo(getTotalPages)

\* The toggle without the reset of the previously active field.
SortOrderAfterNoReset(order, csf, field) ==
  [order EXCEPT ![field] =
     IF csf # field THEN "asc"
     ELSE IF order[field] = "asc" THEN "desc"
     ELSE IF order[field] = "desc" THEN NULL
     ELSE "asc"]

\* sortBy, lines 355-372: the direction of each field after the toggle.
SortOrderAfter(order, csf, field) ==
  IF csf = field
  THEN [order EXCEPT ![field] =
          IF order[field] = "asc" THEN "desc"
          ELSE IF order[field] = "desc" THEN NULL
          ELSE "asc"]
  ELSE [f \in Fields |->
          IF f = field THEN "asc"
          ELSE IF f = csf THEN NULL
          ELSE order[f]]

\* The toggle that keeps the field current when its direction goes to none.
SortFieldAfterKept(order, csf, field) == field

\* sortBy, lines 355-372: currentSortField after the toggle.
SortFieldAfter(order, csf, field) ==
  IF csf = field /\ order[field] = "desc" THEN NULL ELSE field

\* sortBy whose third toggle leaves the sorted array as it is.
sortByWithoutRefilter(field) ==
  /\ sortOrder' = SortOrderAfter(sortOrder, currentSortField, field)
  /\ currentSortField' = SortFieldAfter(sortOrder, currentSortField, field)
  /\ IF sortOrder'[field] # NULL
     THEN /\ filteredProducts' = Sort(filteredProducts, field, sortOrder'[field])
          /\ products' = IF shared THEN filteredProducts' ELSE products
          /\ shared' = shared
     ELSE UNCHANGED <<filteredProducts, products, shared>>
  /\ UNCHANGED <<currentPage, pageSize, searchValue, views>>
  /\ Rendered

sortBy(field) ==
  /\ sortOrder' = SortOrderAfter(sortOrder, currentSortField, field)
  /\ currentSortField' = SortFieldAfter(sortOrder, currentSortField, field)
  /\ IF sortOrder'[field] # NULL
     THEN /\ filteredProducts' = Sort(filteredProducts, field, sortOrder'[field])
          /\ products' = IF shared THEN filteredProducts' ELSE products
          /\ shared' = shared
     ELSE /\ filteredProducts' = FilterByTitle(products, Keyword(searchValue))
          /\ products' = products
          /\ shared' = FALSE
  /\ UNCHANGED <<currentPage, pageSize, searchValue, views>>
  /\ Rendered

\* resetFilters without its currentPage = 1.
resetFiltersKeepingPage ==
  /\ searchValue' = <<>>
  /\ pageSize' = DefaultPageSize
  /\ sortOrder' = [f \in Fields |-> NULL]
  /\ currentSortField' = NULL
  /\ filteredProducts' = Spread(products).arr
  /\ shared' = ~Spread(products).fresh
  /\ UNCHANGED <<currentPage, products, views>>
  /\ Rendered

resetFilters ==
  /\ searchValue' = <<>>
  /\ pageSize' = DefaultPageSize
  /\ sortOrder' = [f \in Fields |-> NULL]
  /\ currentSortField' = NULL
  /\ filteredProducts' = Spread(products).arr
  /\ shared' = ~Spread(products).fresh
  /\ currentPage' = 1
  /\ UNCHANGED <<products, views>>
  /\ Rendered

\* The handler that lets keys typed into a SELECT through.
handleKeyboardNavigationInSelect(tagName, key) ==
  IF tagName = "INPUT" THEN Untouched
  ELSE CASE key = "ArrowLeft"  -> prevPage
         [] key = "ArrowRight" -> nextPage
         [] key = "Home"       -> goToPage(1)
         [] key = "End"        -> goToLastPage
         [] OTHER              -> Untouched

handleKeyboardNavigation(tagName, key) ==
  IF tagName \in {"INPUT", "SELECT"} THEN Untouched
  ELSE CASE key = "ArrowLeft"  -> prevPage
         [] key = "ArrowRight" -> nextPage
         [] key = "Home"       -> goToPage(1)
         [] key = "End"        -> goToLastPage
         [] OTHER              -> Untouched

\* ------------------------------------------------------------------ events
\* e.target.tagName: the two the handler tests for, and any other.
TagNames == {"INPUT", "SELECT", "BODY"}
Keys == {"ArrowLeft", "ArrowRight", "Home", "End", "Enter"}

\* lastOp names the handler, its argument, and currentPage and
\* currentSortField as they were when the event arrived.
Did(op, arg, n) ==
  lastOp' = [op |-> op, arg |-> arg, n |-> n, from |-> currentPage,
             active |-> currentSortField]

NoRun == toggleRun' = [field |-> NULL, n |-> 0]

FetchResolves ==
  /\ fetchState = "pending"
  /\ \E n \in FetchSizes :
       getAllResolved(Catalogue(n)) /\ Did("getAll", "resolved", n)
  /\ fetchState' = "resolved"
  /\ NoRun

FetchRejects ==
  /\ fetchState = "pending"
  /\ getAllRejected
  /\ fetchState' = "rejected"
  /\ Did("getAll", "rejected", 0) /\ NoRun

SearchInput ==
  /\ \E value \in SearchInputs : handleSearch(value)
  /\ UNCHANGED fetchState
  /\ Did("handleSearch", NULL, 0) /\ NoRun

ClearSearchClick ==
  /\ clearSearch
  /\ UNCHANGED fetchState
  /\ Did("clearSearch", NULL, 0) /\ NoRun

PageSizeChange ==
  /\ \E value \in PageSizeOptions : handlePageSizeChange(value)
  /\ UNCHANGED fetchState
  /\ Did("handlePageSizeChange", NULL, 0) /\ NoRun

NextPageClick ==
  /\ nextPage
  /\ UNCHANGED fetchState
  /\ Did("nextPage", NULL, 0) /\ NoRun

PrevPageClick ==
  /\ prevPage
  /\ UNCHANGED fetchState
  /\ Did("prevPage", NULL, 0) /\ NoRun

PageNumberClick ==
  /\ \E page \in 0..MaxGoTo : goToPage(page) /\ Did("goToPage", NULL, page)
  /\ UNCHANGED fetchState
  /\ NoRun

LastPageClick ==
  /\ goToLastPage
  /\ UNCHANGED fetchState
  /\ Did("goToLastPage", NULL, 0) /\ NoRun

SortClick ==
  /\ \E field \in Fields :
       /\ sortBy(field)
       /\ Did("sortBy", field, 0)
       /\ toggleRun' =
            IF toggleRun.field = field /\ toggleRun.n \in 1..2
            THEN [field |-> field, n |-> toggleRun.n + 1]
            ELSE [field |-> field,
                  n |-> IF sortOrder[field] = NULL THEN 1 ELSE 0]
  /\ UNCHANGED fetchState

ResetClick ==
  /\ resetFilters
  /\ UNCHANGED fetchState
  /\ Did("resetFilters", NULL, 0) /\ NoRun

KeyDown ==
  /\ \E tagName \in TagNames, key \in Keys :
       /\ handleKeyboardNavigation(tagName, key)
       /\ Did(IF tagName = "BODY" THEN "keydown" ELSE "keydownInField", key, 0)
  /\ UNCHANGED fetchState
  /\ NoRun

Next ==
  \/ FetchResolves
  \/ FetchRejects
  \/ SearchInput
  \/ ClearSearchClick
  \/ PageSizeChange
  \/ NextPageClick
  \/ PrevPageClick
  \/ PageNumberClick
  \/ LastPageClick
  \/ SortClick
  \/ ResetClick
  \/ KeyDown

Spec == Init /\ [][Next]_vars

\* ------------------------------------------------------------------ claims
Elements(arr) == {arr[i] : i \in 1..Len(arr)}

\* The products whose lower-cased title contains the trimmed, lower-cased
\* value of the search box.
Matching == FilterByTitle(products, Keyword(searchValue))

\* C1: in every reachable state currentPage is in [1, max(1, totalPages)],
\* with totalPages = ceil(filteredProducts.length / pageSize).
C1_CurrentPageInRange ==
  /\ currentPage >= 1
  /\ currentPage <= Max(1, getTotalPages)

\* C2: in every reachable state the elements of filteredProducts are exactly
\* the products whose lower-cased title contains the current search term.
C2_FilteredIsMatchSet ==
  Elements(filteredProducts) = Elements(Matching)

StoreFrame ==
  /\ products' = products
  /\ filteredProducts' = filteredProducts
  /\ pageSize' = pageSize
  /\ sortOrder' = sortOrder
  /\ currentSortField' = currentSortField

\* C3: right after the fetch has resolved, whatever was handled while it was
\* pending, products is the fetched collection, filteredProducts a full copy
\* of it in the same order, currentPage is 1 and the sort state is as it was.
C3_LoadResets ==
  [][ (lastOp'.op = "getAll" /\ lastOp'.arg = "resolved") =>
        /\ products' = Catalogue(lastOp'.n)
        /\ filteredProducts' = products'
        /\ currentPage' = 1
        /\ sortOrder' = sortOrder
        /\ currentSortField' = currentSortField ]_vars

\* A turn in which a user event changed the store or the search term.
UserMutation ==
  /\ lastOp'.op # "getAll"
  /\ <<store, searchValue>>' # <<store, searchValue>>

\* C4: after every user-triggered mutation, with the main content on
\* display, the strip shown is the projection of (currentPage, totalPages),
\* empty when totalPages <= 1, and the statistics shown are products.length,
\* filteredProducts.length and currentPage.
C4_RenderedReflectsStore ==
  [][ (UserMutation /\ views'.mainContent) =>
        /\ dom'.pageNumbers = PageNumbers(currentPage', getTotalPages')
        /\ (getTotalPages' <= 1 => dom'.pageNumbers = <<>>)
        /\ dom'.stats = Stats(products', filteredProducts', currentPage') ]_vars

\* C5: nextPage at the last page or with no pages, prevPage at page 1 and
\* goToPage(n) with n outside [1, totalPages] change no state variable;
\* otherwise they move currentPage by +1, by -1, to n, and change nothing
\* else.
C5_NavigationSteps ==
  [][ /\ lastOp'.op = "nextPage" =>
           /\ StoreFrame
           /\ currentPage' =
                IF currentPage = getTotalPages \/ getTotalPages = 0
                THEN currentPage ELSE currentPage + 1
      /\ lastOp'.op = "prevPage" =>
           /\ StoreFrame
           /\ currentPage' = IF currentPage = 1 THEN currentPage
                             ELSE currentPage - 1
      /\ lastOp'.op = "goToPage" =>
           /\ StoreFrame
           /\ currentPage' =
                IF lastOp'.n < 1 \/ lastOp'.n > getTotalPages
                THEN currentPage ELSE lastOp'.n ]_vars

\* C6: resetFilters, from any state, leaves the search term empty, pageSize
\* 10, both sort directions none and currentSortField null, filteredProducts
\* equal to products, currentPage 1, and the first ten products on display.
C6_ResetRestoresDefaults ==
  lastOp.op = "resetFilters" =>
    /\ searchValue = <<>>
    /\ pageSize = 10
    /\ \A f \in Fields : sortOrder[f] = NULL
    /\ currentSortField = NULL
    /\ filteredProducts = products
    /\ currentPage = 1
    /\ PageData(filteredProducts, currentPage, pageSize)
         = SubSeq(products, 1, Min(10, Len(products)))
    /\ dom.tbody = [i \in 1..Min(10, Len(products)) |-> products[i].id]

\* resetFilters has run from page 0, the page goToLastPage leaves on an
\* empty result, with a collection loaded.
C6_Witness ==
  /\ lastOp.op = "resetFilters"
  /\ lastOp.from = 0
  /\ Len(products) = MaxProducts

NextDirection(dir) ==
  IF dir = NULL THEN "asc" ELSE IF dir = "asc" THEN "desc" ELSE NULL

\* C7: a toggle moves the toggled field none -> asc -> desc -> none; a
\* toggle of a field other than the active one sets the active one to none
\* and the toggled one to asc.
C7_SortCycle ==
  [][ lastOp'.op = "sortBy" =>
        LET field == lastOp'.arg IN
        /\ sortOrder'[field] = NextDirection(sortOrder[field])
        /\ (currentSortField \notin {NULL, field} =>
              /\ sortOrder'[currentSortField] = NULL
              /\ sortOrder'[field] = "asc") ]_vars

\* title has just been toggled while price was the active field, on a
\* loaded collection.
C7_Witness ==
  /\ lastOp.op = "sortBy" /\ lastOp.arg = "title"
  /\ lastOp.active = "price"
  /\ sortOrder["title"] = "asc"
  /\ Len(filteredProducts) = MaxProducts

\* C8: no operation other than the fetch completion changes products.
C8_ProductsImmutable ==
  [][ lastOp'.op # "getAll" => products' = products ]_vars

\* A sort has reordered filteredProducts in place and products is still the
\* collection as fetched.
C8_Witness ==
  /\ lastOp.op = "sortBy"
  /\ sortOrder[lastOp.arg] # NULL
  /\ Len(filteredProducts) = MaxProducts
  /\ filteredProducts # products
  /\ products = Catalogue(MaxProducts)

\* C9: three consecutive toggles of a field whose sort was none leave
\* filteredProducts equal to products filtered by the current search term,
\* in products order, with no sort active.
C9_ThreeTogglesUndo ==
  toggleRun.n = 3 =>
    /\ filteredProducts = Matching
    /\ \A f \in Fields : sortOrder[f] = NULL
    /\ currentSortField = NULL

\* The third toggle has run under a search term that needs trimming and
\* keeps some products and drops others.
C9_Witness ==
  /\ toggleRun.n = 3
  /\ searchValue # Trim(searchValue)
  /\ filteredProducts # <<>>
  /\ Len(filteredProducts) < Len(products)

\* filteredProducts holds elements of products in products order.
InProductsOrder ==
  filteredProducts = SelectSeq(products, LAMBDA p : p \in Elements(filteredProducts))

\* C10: after any search input filteredProducts is a subsequence of products
\* in products order, and all of products when the term is empty.
C10_SearchKeepsOrder ==
  lastOp.op = "handleSearch" =>
    /\ InProductsOrder
    /\ (Keyword(searchValue) = <<>> => filteredProducts = products)

\* A search for the empty string has run while a sort is recorded as
\* active, and the full collection is back in fetched order.
C10_Witness ==
  /\ lastOp.op = "handleSearch"
  /\ searchValue = <<>>
  /\ currentSortField # NULL
  /\ Len(products) = MaxProducts
  /\ filteredProducts = Catalogue(MaxProducts)

\* The rows of the visible page.
VisiblePage == PageData(filteredProducts, currentPage, pageSize)

\* C11: in every reachable state the displayed range has
\* rangeEnd - rangeStart + 1 = number of rows of the visible page when
\* filteredProducts is non-empty, and rangeStart = rangeEnd = 0 when it is
\* empty.
C11_RangeMatchesRows ==
  IF filteredProducts = <<>>
  THEN dom.pageInfo.start = 0 /\ dom.pageInfo.end = 0
  ELSE dom.pageInfo.end - dom.pageInfo.start + 1 = Len(VisiblePage)

\* ------------------------------------------------- the page-number strip
\* Paging through a loaded collection of 2..MaxStripPages products shown one
\* per page, so that totalPages is the size of the collection: the state
\* after the load of such a collection, and the navigation handlers.
InitStrip ==
  \E n \in 2..MaxStripPages :
    /\ products = Catalogue(n)
    /\ filteredProducts = Catalogue(n)
    /\ shared = FALSE
    /\ currentPage = 1
    /\ pageSize = 1
    /\ sortOrder = [f \in Fields |-> NULL]
    /\ currentSortField = NULL
    /\ searchValue = <<>>
    /\ views = [loading |-> FALSE, mainContent |-> TRUE, error |-> FALSE]
    /\ dom = RenderTable(BlankDom, Catalogue(n), Catalogue(n), 1, 1, <<>>)
    /\ fetchState = "resolved"
    /\ lastOp = [op |-> "getAll", arg |-> "resolved", n |-> n, from |-> 1,
                 active |-> NULL]
    /\ toggleRun = [field |-> NULL, n |-> 0]

NextStrip ==
  \/ NextPageClick
  \/ PrevPageClick
  \/ PageNumberClick
  \/ LastPageClick

StripSpec == InitStrip /\ [][NextStrip]_vars

\* The page numbers of a strip, without its ellipsis markers.
Numbers(strip) == SelectSeq(strip, LAMBDA x : x # Ellipsis)

\* Neighbours in the strip are consecutive pages, and an ellipsis stands
\* between two numbers that differ by more than 1.
EllipsisAtGaps(strip) ==
  \A i \in 1..Len(strip) :
    IF strip[i] = Ellipsis
    THEN /\ i > 1 /\ i < Len(strip)
         /\ strip[i - 1] # Ellipsis /\ strip[i + 1] # Ellipsis
         /\ strip[i + 1] - strip[i - 1] > 1
    ELSE i < Len(strip) /\ strip[i + 1] # Ellipsis => strip[i + 1] = strip[i] + 1

\* C12: for totalPages >= 2 and currentPage in [1, totalPages] the strip is
\* strictly increasing, holds 1, currentPage and totalPages, is the first
\* page, a window of at most 5 consecutive pages around currentPage and the
\* last page, with an ellipsis exactly at the gaps; for currentPage = 1 and
\* totalPages = 8 it is 1 2 3 4 5 ... 8.
C12_StripShape ==
  LET tp == getTotalPages
      cp == currentPage
      strip == dom.pageNumbers
      nums == Numbers(strip)
      window == StartPage(cp, tp)..EndPage(cp, tp)
  IN  (tp >= 2 /\ cp \in 1..tp) =>
        /\ \A i \in 1..(Len(nums) - 1) : nums[i] < nums[i + 1]
        /\ {1, cp, tp} \subseteq Elements(nums)
        /\ Cardinality(window) <= 5
        /\ cp \in window
        /\ Elements(nums) = window \cup {1, tp}
        /\ EllipsisAtGaps(strip)
        /\ (cp = 1 /\ tp = 8 =>
              strip = <<1, 2, 3, 4, 5, Ellipsis, 8>>)

\* The strip of page 1 of 8 is on display after paging away and back.
C12_Witness ==
  /\ getTotalPages = 8
  /\ currentPage = 1
  /\ lastOp.op = "prevPage"
  /\ lastOp.from = 2
  /\ Len(dom.pageNumbers) = 7

\* C13: the one fetch settles once; after it has failed the error view is
\* shown with main content and loading hidden, whatever is handled later;
\* after it has succeeded main content is shown with loading and error
\* hidden; at most one of the three views is displayed at the end of a turn.
C13_OneViewPerOutcome ==
  /\ fetchState = "rejected" =>
       views = [loading |-> FALSE, mainContent |-> FALSE, error |-> TRUE]
  /\ fetchState = "resolved" =>
       views = [loading |-> FALSE, mainContent |-> TRUE, error |-> FALSE]
  /\ Cardinality({v \in {"loading", "mainContent", "error"} : views[v]}) <= 1

\* The fields whose direction is not none.
ActiveFields == {f \in Fields : sortOrder[f] # NULL}

\* C14: at most one of price and title has a direction, and
\* currentSortField is null exactly when neither has one and otherwise
\* names the one that has.
C14_OneActiveSort ==
  /\ Cardinality(ActiveFields) <= 1
  /\ currentSortField = NULL <=> ActiveFields = {}
  /\ currentSortField # NULL => ActiveFields = {currentSortField}

\* price has been toggled through its cycle, back to none, on a loaded
\* collection.
C14_Witness ==
  /\ lastOp.op = "sortBy" /\ lastOp.arg = "price"
  /\ toggleRun.n = 3
  /\ ActiveFields = {}
  /\ products # <<>>

\* arr is ordered by field in direction dir, under the order of the field:
\* numeric for price, localeCompare for title.
Ordered(arr, field, dir) ==
  \A i \in 1..(Len(arr) - 1) :
    LET c == IF field = "price" THEN arr[i].price - arr[i + 1].price
             ELSE LocaleCompare(arr[i].title, arr[i + 1].title)
    IN  IF dir = "asc" THEN c <= 0 ELSE c >= 0

\* C15: a toggle that leaves its field ascending (descending) leaves
\* filteredProducts a permutation of what it was, non-decreasing
\* (non-increasing) by that field, and currentPage and pageSize as they were.
C15_SortOrdersInPlace ==
  [][ (lastOp'.op = "sortBy" /\ sortOrder'[lastOp'.arg] # NULL) =>
        /\ Len(filteredProducts') = Len(filteredProducts)
        /\ Elements(filteredProducts') = Elements(filteredProducts)
        /\ Ordered(filteredProducts', lastOp'.arg, sortOrder'[lastOp'.arg])
        /\ currentPage' = currentPage
        /\ pageSize' = pageSize ]_vars

\* The whole collection has just been sorted by title, descending, on a
\* page other than the first.
C15_Witness ==
  /\ lastOp.op = "sortBy" /\ lastOp.arg = "title"
  /\ sortOrder["title"] = "desc"
  /\ Len(filteredProducts) = MaxProducts
  /\ filteredProducts # Catalogue(MaxProducts)
  /\ currentPage > 1

\* C16: a search input or clear-search changes filteredProducts and
\* currentPage (to 1) only: directions, currentSortField, pageSize and
\* products stay, and filteredProducts is then in products order even with
\* a sort recorded as active.
C16_SearchKeepsSortState ==
  [][ lastOp'.op \in {"handleSearch", "clearSearch"} =>
        /\ sortOrder' = sortOrder
        /\ currentSortField' = currentSortField
        /\ pageSize' = pageSize
        /\ products' = products
        /\ currentPage' = 1
        /\ InProductsOrder' ]_vars

\* The search has been cleared while a descending sort is recorded, and the
\* collection is back in fetched order.
C16_Witness ==
  /\ lastOp.op = "clearSearch"
  /\ lastOp.active # NULL
  /\ currentSortField = lastOp.active
  /\ sortOrder[currentSortField] = "desc"
  /\ Len(products) = MaxProducts
  /\ filteredProducts = products
  /\ ~Ordered(filteredProducts, currentSortField, "desc")

\* The step leaves the store, the search box, the views and the DOM alone.
NoStateChange == <<store, searchValue, views, dom>>' = <<store, searchValue, views, dom>>

\* C17: a key event on an INPUT or SELECT changes no state; on any other
\* target ArrowLeft does what prevPage does, ArrowRight what nextPage does,
\* Home what going to page 1 does, End what going to the last page does,
\* and any other key changes no state.
C17_KeysMapToNavigation ==
  [][ /\ lastOp'.op = "keydownInField" => NoStateChange
      /\ lastOp'.op = "keydown" =>
           CASE lastOp'.arg = "ArrowLeft"  -> prevPage
             [] lastOp'.arg = "ArrowRight" -> nextPage
             [] lastOp'.arg = "Home"       -> goToPage(1)
             [] lastOp'.arg = "End"        -> goToLastPage
             [] OTHER                      -> NoStateChange ]_vars

\* Home has brought a paged result back from a later page to page 1.
C17_Witness ==
  /\ lastOp.op = "keydown" /\ lastOp.arg = "Home"
  /\ lastOp.from > 1
  /\ currentPage = 1
  /\ dom.pageInfo.page = 1
  /\ getTotalPages > 1

\* currentPage as each navigation operation would leave it.
PageAfterFirst ==
  IF 1 <= getTotalPages THEN 1 ELSE currentPage

PageAfterPrev ==
  IF currentPage > 1 THEN currentPage - 1 ELSE currentPage

PageAfterNext ==
  IF currentPage < getTotalPages THEN currentPage + 1 ELSE currentPage

PageAfterLast == getTotalPages

\* C18: in every reachable state each navigation control is computed as
\* disabled exactly when its operation would leave currentPage unchanged,
\* an empty filteredProducts included.
C18_DisabledIffNoMove ==
  LET b == ButtonStates(filteredProducts, currentPage, pageSize)
  IN  /\ b.first <=> (PageAfterFirst = currentPage)
      /\ b.prev  <=> (PageAfterPrev = currentPage)
      /\ b.next  <=> (PageAfterNext = currentPage)
      /\ b.last  <=> (PageAfterLast = currentPage)

\* C19: in every reachable state with filteredProducts non-empty the visible
\* page is non-empty and has at most pageSize rows, and the pages nextPage
\* steps through from page 1, laid end to end, are filteredProducts.
RECURSIVE PagesFrom(_)
PagesFrom(page) ==
  PageData(filteredProducts, page, pageSize)
    \o (IF page < getTotalPages THEN PagesFrom(page + 1) ELSE <<>>)

C19_PagesPartition ==
  filteredProducts # <<>> =>
    /\ VisiblePage # <<>>
    /\ Len(VisiblePage) <= pageSize
    /\ PagesFrom(1) = filteredProducts
====
